---- MODULE Spec2Model ----
(***************************************************************************)
(* Checkout core of gocommerce-api: the cart store (CartRepository over    *)
(* the carts / cart_items tables), the order store and the order handler.  *)
(*                                                                         *)
(* Storage is the committed content of three tables.  A row of carts is    *)
(* keyed by id; a row of cart_items is keyed by id alone (the primaryKey   *)
(* tag of database.CartItem), cart_id being an ordinary indexed column.    *)
(* Times are naturals, 0 being the zero time.Time.                         *)
(***************************************************************************)
EXTENDS Integers, Sequences, FiniteSets, TLC

VARIABLES cartRows, itemRows, orderRows, productRows, now, last, tx, co

vars == <<cartRows, itemRows, orderRows, productRows, now, last, tx, co>>

----------------------------------------------------------------------------
(* Bounds of the model *)

MaxItems == 2     \* longest item list of a cart handed to Save
MaxTicks == 1     \* how often the wall clock advances
MaxOrders == 2    \* checkouts begun beyond the orders stored
MaxLines == 2     \* longest list of line items of a tax request
MaxSnapshots == 1 \* orders stored while the cart goes on changing

(* Identifiers *)

CartIds == {"X", "Y"}
ItemIds == {"a", "b"}
Revs    == {1, 2}
Nil     == "nil"
NoRow   == [ID |-> "norow"]     \* no row under that key
NoCart  == [ID |-> "nocart"]    \* a nil *cart.Cart
ZeroTime == 0
NilMap  == [nil |-> TRUE, kv |-> {}]    \* a nil map[string]string
Stamp == {t \in 1..2 : t < 2}     \* the non-zero time input carts carry
ClockStart == Cardinality(Stamp) + 1

\* cart X belongs to a signed-in user, cart Y to an anonymous session
UserOf(id)    == IF id = "X" THEN "u1" ELSE ""
SessionOf(id) == IF id = "X" THEN "" ELSE "s1"
CartOrder(id) == IF id = "X" THEN 1 ELSE 2

ErrNone         == "ok"
ErrCartNotFound == "cart not found"
ErrNilCart      == "cart cannot be nil"
ErrPersistence  == "persistence"

----------------------------------------------------------------------------
(* Domain values: cart.CartItem and cart.Cart as the callers build them *)

Money(amt, cur) == [Amount |-> amt, Currency |-> cur]

\* A cart item; rev selects the content of every non-key field, so that two
\* revisions of one item id differ in every field.
CartItem(id, rev, at) ==
  [ID         |-> id,
   ProductID  |-> IF rev = 1 THEN "p1" ELSE "p2",
   VariantID  |-> IF rev = 1 THEN Nil ELSE "v2",
   SKU        |-> IF rev = 1 THEN "sku1" ELSE "sku2",
   Name       |-> IF rev = 1 THEN "n1" ELSE "n2",
   Price      |-> IF rev = 1 THEN [Amount |-> 100, Currency |-> "USD"]
                             ELSE [Amount |-> 250, Currency |-> "EUR"],
   Quantity   |-> rev,
   Attributes |-> IF rev = 1 THEN NilMap ELSE [nil |-> FALSE, kv |-> {<<"size", "L">>}],
   AddedAt    |-> at]

\* Revision 1 of an item carries its add time; revision 2 has none yet (the
\* zero time).  The signed-in cart X holds either, the guest cart Y only
\* revision 1.
ItemPool(cartID) ==
  {CartItem(id, rev, IF rev = 1 THEN CHOOSE t \in Stamp : TRUE ELSE ZeroTime) :
     id \in ItemIds, rev \in (IF cartID = "X" THEN Revs ELSE {1})}

SeqIds(s) == {s[k].ID : k \in DOMAIN s}

\* item lists with pairwise distinct ids, as cart.Cart keeps them
ItemLists(cartID) ==
  UNION {{s \in [1..n -> ItemPool(cartID)] : Cardinality(SeqIds(s)) = n} : n \in 0..MaxItems}

Cart(id, items, at) ==
  [ID |-> id, UserID |-> UserOf(id), SessionID |-> SessionOf(id), Items |-> items,
   CreatedAt |-> at, UpdatedAt |-> at, ExpiresAt |-> Nil]

CartInputs ==
  UNION {{Cart(id, items, at) : items \in ItemLists(id),
                                at \in (IF id = "X" THEN Stamp \cup {ZeroTime} ELSE Stamp)} :
         id \in CartIds}

----------------------------------------------------------------------------
(* database.MarshalJSON / UnmarshalJSON on map[string]string.  A Go map is *)
(* nil or a set kv of key/value entries; the JSON text of a map is its set *)
(* of members ("{}" has none).  Unmarshalling into a nil map allocates it. *)

MarshalJSON(m) == [json |-> m.kv]

UnmarshalJSON(data) == [nil |-> FALSE, kv |-> data.json]

----------------------------------------------------------------------------
(* CartRepository conversions *)

toDatabase(c, t) ==
  [ID        |-> c.ID,
   UserID    |-> c.UserID,
   SessionID |-> c.SessionID,
   CreatedAt |-> IF c.CreatedAt = ZeroTime THEN t ELSE c.CreatedAt,
   UpdatedAt |-> IF c.UpdatedAt = ZeroTime THEN t ELSE c.UpdatedAt,
   ExpiresAt |-> c.ExpiresAt]

toDatabaseItem(cartID, item, t) ==
  [ID            |-> item.ID,
   CartID        |-> cartID,
   ProductID     |-> item.ProductID,
   VariantID     |-> item.VariantID,
   SKU           |-> item.SKU,
   Name          |-> item.Name,
   PriceAmount   |-> item.Price.Amount,
   PriceCurrency |-> item.Price.Currency,
   Quantity      |-> item.Quantity,
   Attributes    |-> IF ~item.Attributes.nil THEN MarshalJSON(item.Attributes)
                                              ELSE [json |-> {}],
   AddedAt       |-> IF item.AddedAt = ZeroTime THEN t ELSE item.AddedAt]

toDomainItem(dbItem) ==
  [ID         |-> dbItem.ID,
   ProductID  |-> dbItem.ProductID,
   VariantID  |-> dbItem.VariantID,
   SKU        |-> dbItem.SKU,
   Name       |-> dbItem.Name,
   Price      |-> [Amount |-> dbItem.PriceAmount, Currency |-> dbItem.PriceCurrency],
   Quantity   |-> dbItem.Quantity,
   Attributes |-> UnmarshalJSON(dbItem.Attributes),
   AddedAt    |-> dbItem.AddedAt]

----------------------------------------------------------------------------
(* Statements CartRepository issues, as functions on table contents *)

\* tx.Save(dbCart): UPDATE of every column by primary key, INSERT when no row
\* matched.  gorm tracks the field named UpdatedAt: Save sets it to the
\* current time on the model before it writes, whatever the caller put there.
SaveCartRow(carts, row, t) ==
  [carts EXCEPT ![row.ID] = [row EXCEPT !.UpdatedAt = t]]

\* (variant: ON CONFLICT patches the quantity only)
SaveItemRow_PatchQuantity(items, row) ==
  IF items[row.ID] = NoRow
    THEN [items EXCEPT ![row.ID] = row]
    ELSE [items EXCEPT ![row.ID].Quantity = row.Quantity]

\* tx.Save(dbItem): upsert of every column by the primary key id
SaveItemRow(items, row) == [items EXCEPT ![row.ID] = row]

\* Pluck("id") WHERE cart_id = ?
PluckIDs(items, cartID) ==
  {i \in ItemIds : items[i] # NoRow /\ items[i].CartID = cartID}

\* DELETE FROM cart_items WHERE cart_id = ? AND id IN ?
DeleteItemRows(items, cartID, ids) ==
  [i \in ItemIds |->
     IF i \in ids /\ items[i] # NoRow /\ items[i].CartID = cartID
       THEN NoRow ELSE items[i]]

----------------------------------------------------------------------------
(* CartRepository.Save *)

RECURSIVE SaveItems(_, _, _, _, _)
\* the loop over c.Items, its first k iterations
SaveItems(items, cartID, list, k, t) ==
  IF k = 0 THEN items
  ELSE SaveItemRow(SaveItems(items, cartID, list, k - 1, t),
                   toDatabaseItem(cartID, list[k], t))

\* (variants: the difference taken the wrong way round; every existing id;
\* nothing when the cart has no items)
ToDelete_Swapped(items, c) == SeqIds(c.Items) \ PluckIDs(items, c.ID)

ToDelete_AllExisting(items, c) == PluckIDs(items, c.ID)

ToDelete_SkipEmptyCart(items, c) ==
  IF Len(c.Items) = 0 THEN {} ELSE PluckIDs(items, c.ID) \ SeqIds(c.Items)

\* the ids stored for the cart that the cart no longer holds
ToDelete(items, c) == PluckIDs(items, c.ID) \ SeqIds(c.Items)

\* Statements of the closure, numbered: 1 the header upsert, 2 the Pluck,
\* 2+k the upsert of item k, n+3 the DELETE (issued only when toDelete is
\* not empty).  failAt is the statement that returns an error, 0 for none.
FailPoints(items, c) ==
  0..(Len(c.Items) + 2) \cup
  (IF ToDelete(items, c) # {} THEN {Len(c.Items) + 3} ELSE {})

\* the tables as the closure leaves them inside the transaction
SaveClosure(carts, items, c, t, failAt) ==
  LET n        == Len(c.Items)
      carts1   == IF failAt = 1 THEN carts ELSE SaveCartRow(carts, toDatabase(c, t), t)
      written  == IF failAt = 0 \/ failAt = n + 3 THEN n
                  ELSE IF failAt <= 2 THEN 0 ELSE failAt - 3
      items1   == SaveItems(items, c.ID, c.Items, written, t)
      toDelete == ToDelete(items, c)
      items2   == IF failAt = 0 THEN DeleteItemRows(items1, c.ID, toDelete) ELSE items1
  IN [carts |-> carts1, items |-> items2,
      err |-> IF failAt = 0 THEN ErrNone ELSE ErrPersistence]

\* (variant: the statements run outside a transaction, nothing is undone)
Transaction_NoRollback(before, after) == after

\* db.Transaction: commit when the closure returns nil, roll back otherwise
Transaction(before, after) ==
  IF after.err = ErrNone THEN after
  ELSE [carts |-> before.carts, items |-> before.items, err |-> after.err]

SaveResult(carts, items, c, t, failAt) ==
  IF c = NoCart
    THEN [carts |-> carts, items |-> items, err |-> ErrNilCart]
    ELSE Transaction([carts |-> carts, items |-> items],
                     SaveClosure(carts, items, c, t, failAt))

\* last records the latest store call: its argument, what it returned,
\* the existingIDs Save plucked, and whether it repeats the call before it.
Call(op, id, err, cart, existing, again) ==
  [op |-> op, id |-> id, err |-> err, cart |-> cart,
   existing |-> existing, again |-> again]

Save ==
  \E c \in CartInputs \cup {NoCart} :
    \E failAt \in (IF c = NoCart THEN {0} ELSE FailPoints(itemRows, c)) :
      LET r == SaveResult(cartRows, itemRows, c, now, failAt)
      IN /\ cartRows' = r.carts
         /\ itemRows' = r.items
         /\ last' = Call("Save", IF c = NoCart THEN Nil ELSE c.ID, r.err, c,
                         IF r.err = ErrNone THEN PluckIDs(itemRows, c.ID) ELSE {},
                         /\ r.err = ErrNone
                         /\ last.op = "Save"
                         /\ last.err = ErrNone
                         /\ last.cart = c)
         /\ UNCHANGED <<orderRows, now, tx, co, productRows>>

----------------------------------------------------------------------------
(* CartRepository.Delete: removes the header row only *)

Delete ==
  \E id \in CartIds :
    /\ cartRows' = [cartRows EXCEPT ![id] = NoRow]
    /\ last' = Call("Delete", id, ErrNone, NoCart, {}, FALSE)
    /\ UNCHANGED <<itemRows, orderRows, now, tx, co, productRows>>

----------------------------------------------------------------------------
(* CartRepository.Find*: header by First(...), items by toDomain *)

\* SELECT ... WHERE cart_id = ? ORDER BY added_at ASC: every listing of the
\* cart's rows in non-decreasing added_at order; rows with equal added_at
\* come in an order the database chooses.
OrderedItemRows(items, cartID) ==
  LET ids == PluckIDs(items, cartID)
      n   == Cardinality(ids)
  IN {s \in [1..n -> ids] :
        /\ \A i, j \in 1..n : i # j => s[i] # s[j]
        /\ \A i, j \in 1..n : i < j => items[s[i]].AddedAt <= items[s[j]].AddedAt}

toDomain(dbCart, items, order) ==
  [ID        |-> dbCart.ID,
   UserID    |-> dbCart.UserID,
   SessionID |-> dbCart.SessionID,
   Items     |-> [k \in DOMAIN order |-> toDomainItem(items[order[k]])],
   CreatedAt |-> dbCart.CreatedAt,
   UpdatedAt |-> dbCart.UpdatedAt,
   ExpiresAt |-> dbCart.ExpiresAt]

\* First(&dbCart, cond): of the rows that match, the one with the least
\* primary key
First(carts, match) ==
  IF match = {} THEN NoRow
  ELSE carts[CHOOSE id \in match : \A o \in match : CartOrder(id) <= CartOrder(o)]

StoredCarts(carts) == {id \in CartIds : carts[id] # NoRow}

FindOutcome(op, key, dbCart) ==
  \/ /\ dbCart = NoRow
     /\ last' = Call(op, key, ErrCartNotFound, NoCart, {}, FALSE)
  \/ /\ dbCart # NoRow
     /\ \E order \in OrderedItemRows(itemRows, dbCart.ID) :
          last' = Call(op, key, ErrNone, toDomain(dbCart, itemRows, order), {}, FALSE)
  \/ last' = Call(op, key, ErrPersistence, NoCart, {}, FALSE)

FindByID ==
  \E id \in CartIds :
    LET match == {x \in StoredCarts(cartRows) : cartRows[x].ID = id}
    IN /\ FindOutcome("FindByID", id, First(cartRows, match))
       /\ UNCHANGED <<cartRows, itemRows, orderRows, now, tx, co, productRows>>

FindByUserID ==
  \E userID \in {"u1"} :
    LET match == {x \in StoredCarts(cartRows) : cartRows[x].UserID = userID}
    IN /\ FindOutcome("FindByUserID", userID, First(cartRows, match))
       /\ UNCHANGED <<cartRows, itemRows, orderRows, now, tx, co, productRows>>

FindBySessionID ==
  \E sessionID \in {"s1"} :
    LET match == {x \in StoredCarts(cartRows) : cartRows[x].SessionID = sessionID}
    IN /\ FindOutcome("FindBySessionID", sessionID, First(cartRows, match))
       /\ UNCHANGED <<cartRows, itemRows, orderRows, now, tx, co, productRows>>

----------------------------------------------------------------------------
(* The wall clock read by time.Now() *)

Tick ==
  /\ now < ClockStart + MaxTicks
  /\ now' = now + 1
  /\ UNCHANGED <<cartRows, itemRows, orderRows, last, tx, co, productRows>>

----------------------------------------------------------------------------

\* request goroutines, and the state of the database transaction each has open
----------------------------------------------------------------------------
(* The products table: ProductRepository over database.Product *)

ProductIds == {"p1", "p2"}

\* catalog.Product: the product id in the base currency of its SKU
Product(id, price) ==
  [ID        |-> id,
   SKU       |-> IF id = "p1" THEN "sku1" ELSE "sku2",
   Name      |-> IF id = "p1" THEN "n1" ELSE "n2",
   BasePrice |-> Money(price, IF id = "p1" THEN "USD" ELSE "EUR")]

\* the base prices a product is saved with
BasePrices(id) == IF id = "p1" THEN {100, 120} ELSE {250}

ProductToDatabase(product) ==
  [ID        |-> product.ID,
   SKU       |-> product.SKU,
   Name      |-> product.Name,
   BasePrice |-> product.BasePrice.Amount,
   Currency  |-> product.BasePrice.Currency]

ProductToDomain(dbProduct) ==
  [ID        |-> dbProduct.ID,
   SKU       |-> dbProduct.SKU,
   Name      |-> dbProduct.Name,
   BasePrice |-> Money(dbProduct.BasePrice, dbProduct.Currency)]

\* ProductRepository.Save: db.Save of the product row, an upsert on its id
SaveProductRow(products, product) ==
  {r \in products : r.ID # product.ID} \cup {ProductToDatabase(product)}

\* the products the store is seeded with
SeedProducts ==
  {ProductToDatabase(Product(id, CHOOSE a \in BasePrices(id) : \A b \in BasePrices(id) : a <= b)) :
     id \in ProductIds}

\* ProductRepository.Save of a product at another base price
ProductSave ==
  /\ \E id \in ProductIds :
       \E price \in BasePrices(id) :
         productRows' = SaveProductRow(productRows, Product(id, price))
  /\ UNCHANGED <<cartRows, itemRows, orderRows, now, last, tx, co>>

Procs == {"p1", "p2"}

Untouched == [ID |-> "untouched"]

IdleTx ==
  [pc |-> "idle", c |-> NoCart, res |-> "none", raced |-> FALSE,
   wCarts |-> [id \in CartIds |-> Untouched],
   wItems |-> [i \in ItemIds |-> Untouched],
   existing |-> {}, k |-> 0]

\* a checkout request of goroutine p: the cart it read, its response, the
\* id of the order it created and how many orders p created so far
IdleCheckout ==
  [pc |-> "idle", req |-> Nil, cart |-> NoCart, res |-> "none", order |-> Nil,
   n |-> 0, overlapped |-> FALSE]

Init ==
  /\ cartRows = [id \in CartIds |-> NoRow]
  /\ itemRows = [i \in ItemIds |-> NoRow]
  /\ orderRows = {}
  /\ productRows = SeedProducts
  /\ now = ClockStart
  /\ last = Call("none", Nil, ErrNone, NoCart, {}, FALSE)
  /\ tx = [p \in Procs |-> IdleTx]
  /\ co = [p \in Procs |-> IdleCheckout]

Next ==
  \/ Save
  \/ Delete
  \/ FindByID
  \/ FindByUserID
  \/ FindBySessionID
  \/ Tick

Spec == Init /\ [][Next]_vars

----------------------------------------------------------------------------
(* Concurrent requests.  Each request goroutine p runs CartRepository.Save *)
(* statement by statement inside its own database transaction.  The store  *)
(* isolates at READ COMMITTED: a transaction reads the committed rows      *)
(* overlaid with its own writes, a write locks the row until commit or     *)
(* rollback, and a statement that needs a row locked by another            *)
(* transaction waits.                                                      *)

\* carts the concurrent requests save: cart X with revision-1 items
ConcurrentInputs == {Cart("X", items, CHOOSE t \in Stamp : TRUE) : items \in ItemLists("Y")}

\* what transaction p reads
ViewCarts(p) ==
  [id \in CartIds |-> IF tx[p].wCarts[id] = Untouched THEN cartRows[id] ELSE tx[p].wCarts[id]]

ViewItems(p) ==
  [i \in ItemIds |-> IF tx[p].wItems[i] = Untouched THEN itemRows[i] ELSE tx[p].wItems[i]]

\* (variant: the header is written without taking its row lock)
HeaderLockFree_NoLock(p, id) == TRUE

\* the header row of cart id is not locked by another transaction
HeaderLockFree(p, id) ==
  \A q \in Procs \ {p} : tx[q].wCarts[id] = Untouched

ItemLocksFree(p, ids) ==
  \A q \in Procs \ {p} : \A i \in ids : tx[q].wItems[i] = Untouched

\* transaction q has written the header row and not yet ended
HoldsHeader(q) == tx[q].pc \in {"pluck", "items", "delete", "commit"}

\* the call is made and the transaction begun; raced records that another
\* Save was in the middle of its transaction at that moment
SaveBegin(p) ==
  /\ tx[p].pc = "idle"
  /\ \E c \in ConcurrentInputs :
       tx' = [tx EXCEPT ![p] = [IdleTx EXCEPT !.pc = "header", !.c = c,
                 !.raced = \E q \in Procs \ {p} : HoldsHeader(q)]]
  /\ UNCHANGED <<cartRows, itemRows, orderRows, now, last, co, productRows>>

\* tx.Save(dbCart)
SaveHeader(p) ==
  /\ tx[p].pc = "header"
  /\ HeaderLockFree(p, tx[p].c.ID)
  /\ LET c     == tx[p].c
         carts == SaveCartRow(ViewCarts(p), toDatabase(c, now), now)
     IN tx' = [tx EXCEPT ![p].wCarts[c.ID] = carts[c.ID], ![p].pc = "pluck"]
  /\ UNCHANGED <<cartRows, itemRows, orderRows, now, last, co, productRows>>

\* Pluck("id", &existingIDs)
SavePluck(p) ==
  /\ tx[p].pc = "pluck"
  /\ tx' = [tx EXCEPT ![p].existing = PluckIDs(ViewItems(p), tx[p].c.ID),
                      ![p].k = 1,
                      ![p].pc = IF Len(tx[p].c.Items) = 0 THEN "delete" ELSE "items"]
  /\ UNCHANGED <<cartRows, itemRows, orderRows, now, last, co, productRows>>

\* one iteration of the loop: tx.Save(dbItem)
SaveItem(p) ==
  /\ tx[p].pc = "items"
  /\ LET c     == tx[p].c
         item  == c.Items[tx[p].k]
         items == SaveItemRow(ViewItems(p), toDatabaseItem(c.ID, item, now))
     IN /\ ItemLocksFree(p, {item.ID})
        /\ tx' = [tx EXCEPT ![p].wItems[item.ID] = items[item.ID],
                            ![p].k = @ + 1,
                            ![p].pc = IF tx[p].k = Len(c.Items) THEN "delete" ELSE "items"]
  /\ UNCHANGED <<cartRows, itemRows, orderRows, now, last, co, productRows>>

\* the DELETE of the removed ids, issued when there are any
SaveDelete(p) ==
  /\ tx[p].pc = "delete"
  /\ LET c        == tx[p].c
         toDelete == tx[p].existing \ SeqIds(c.Items)
         hit      == toDelete \cap PluckIDs(ViewItems(p), c.ID)
         items    == DeleteItemRows(ViewItems(p), c.ID, toDelete)
     IN /\ ItemLocksFree(p, hit)
        /\ tx' = [tx EXCEPT ![p].wItems = [i \in ItemIds |->
                                             IF i \in hit THEN items[i] ELSE @[i]],
                            ![p].pc = "commit"]
  /\ UNCHANGED <<cartRows, itemRows, orderRows, now, last, co, productRows>>

\* the closure returned nil: commit
SaveCommit(p) ==
  /\ tx[p].pc = "commit"
  /\ cartRows' = ViewCarts(p)
  /\ itemRows' = ViewItems(p)
  /\ tx' = [tx EXCEPT ![p] = [IdleTx EXCEPT !.c = tx[p].c, !.res = ErrNone,
                                             !.raced = tx[p].raced]]
  /\ UNCHANGED <<orderRows, now, last, co, productRows>>

\* a statement returned an error: the closure returns it, rollback
SaveFail(p) ==
  /\ \/ tx[p].pc \in {"header", "pluck", "items"}
     \/ tx[p].pc = "delete" /\ tx[p].existing \ SeqIds(tx[p].c.Items) # {}
  /\ tx' = [tx EXCEPT ![p] = [IdleTx EXCEPT !.c = tx[p].c, !.res = ErrPersistence,
                                             !.raced = tx[p].raced]]
  /\ UNCHANGED <<cartRows, itemRows, orderRows, now, last, co, productRows>>

NextConcurrent ==
  \/ \E p \in Procs : SaveBegin(p)
  \/ \E p \in Procs : SaveHeader(p)
  \/ \E p \in Procs : SavePluck(p)
  \/ \E p \in Procs : SaveItem(p)
  \/ \E p \in Procs : SaveDelete(p)
  \/ \E p \in Procs : SaveCommit(p)
  \/ \E p \in Procs : SaveFail(p)
  \/ Tick

SpecConcurrent == Init /\ [][NextConcurrent]_vars

----------------------------------------------------------------------------
(* Tax: SimpleTaxCalculator.Calculate.  The rate is a float64; an amount   *)
(* is an int64 converted to float64, multiplied by the rate (one IEEE-754  *)
(* multiplication, rounded to nearest-even at 53 significant bits) and     *)
(* converted back with int64(), which drops the fraction.                  *)

\* A rate: the decimal num/den written in the source, and the float64 the
\* program holds for it, mant * 2^-exp with mant in hexadecimal digits.
Rate0875 == [num |-> 875, den |-> 10000, exp |-> 56,
             mant |-> <<0, 1, 6, 6, 6, 6, 6, 6, 6, 6, 6, 6, 6, 6, 6>>]

Rate0725 == [num |-> 725, den |-> 10000, exp |-> 56,
             mant |-> <<0, 1, 2, 8, 15, 5, 12, 2, 8, 15, 5, 12, 2, 8, 15>>]

Rates == {Rate0875, Rate0725}

\* The product is computed on limbs of LimbBits bits, three hexadecimal
\* digits each, so that no intermediate value leaves the integers at hand;
\* amounts stay below 2^19.
Significand == 53                      \* bits a float64 keeps
LimbBits    == 12
Limb        == 2 ^ LimbBits
HexDigits   == Len(Rate0875.mant)
MantLimbs   == HexDigits \div 3
ProdLimbs   == MantLimbs + 2

\* limb j of the rate's mantissa, least significant first
MantLimb(r, j) ==
  IF j >= MantLimbs THEN 0
  ELSE LET at == HexDigits - 3 * j
       IN r.mant[at - 2] * 256 + r.mant[at - 1] * 16 + r.mant[at]

\* the limbs of n * mant
RECURSIVE MulLimbs(_, _, _, _, _)
MulLimbs(n, r, j, carry, acc) ==
  IF j = ProdLimbs THEN acc
  ELSE LET t == MantLimb(r, j) * n + carry
       IN MulLimbs(n, r, j + 1, t \div Limb, Append(acc, t % Limb))

\* bit i of the product
Bit(pl, i) == (pl[(i \div LimbBits) + 1] \div (2 ^ (i % LimbBits))) % 2

\* the product without its e lowest bits
RECURSIVE Shifted(_, _, _)
Shifted(pl, e, j) ==
  IF j = ProdLimbs THEN 0
  ELSE (IF LimbBits * j >= e THEN pl[j + 1] * 2 ^ (LimbBits * j - e)
        ELSE IF e - LimbBits * j >= LimbBits THEN 0
        ELSE pl[j + 1] \div 2 ^ (e - LimbBits * j))
       + Shifted(pl, e, j + 1)

\* int64(float64(n) * rate) for n >= 0: the exact product n * mant * 2^-exp
\* is rounded to Significand bits, ties to even, and the fraction of the
\* rounded value is dropped.  The rounding reaches the next integer exactly
\* when it rounds up and every kept bit below the integer part is set.
MulTrunc(n, r) ==
  LET pl    == MulLimbs(n, r, 0, 0, <<>>)
      ones  == {i \in 0..(LimbBits * ProdLimbs - 1) : Bit(pl, i) = 1}
      len   == IF ones = {} THEN 0 ELSE 1 + CHOOSE i \in ones : \A j \in ones : j <= i
      d     == len - Significand
      whole == Shifted(pl, r.exp, 0)
      up    == /\ d > 0
               /\ Bit(pl, d - 1) = 1
               /\ (Bit(pl, d) = 1 \/ \E i \in 0..(d - 2) : Bit(pl, i) = 1)
               /\ \A i \in d..(r.exp - 1) : Bit(pl, i) = 1
  IN IF up THEN whole + 1 ELSE whole

\* the amounts a cart total reaches, and their products, computed once
CartAmounts == 0..511

MulTable == [r \in Rates |-> [n \in CartAmounts |-> MulTrunc(n, r)]]

Float64MulTrunc(n, r) == IF n \in CartAmounts THEN MulTable[r][n] ELSE MulTrunc(n, r)

LineItem(id, amount, currency, quantity, taxable) ==
  [ID |-> id, Amount |-> Money(amount, currency), Quantity |-> quantity,
   IsTaxable |-> taxable]

\* the line items of the requests
TaxLines ==
  {LineItem("l1", 720, "USD", 1, TRUE),    LineItem("l2", 5000, "USD", 1, TRUE),
   LineItem("l3", 10000, "USD", 1, TRUE),  LineItem("l4", 20000, "USD", 1, TRUE),
   LineItem("l5", 720, "USD", 2, FALSE),   LineItem("l6", 5000, "USD", 1, FALSE),
   LineItem("l7", 300, "EUR", 1, TRUE),
   LineItem("l8", 800, "USD", 1, TRUE),    LineItem("l9", 640, "USD", 1, TRUE)}

ShippingCosts == {Money(0, "USD"), Money(10, "USD"), Money(1000, "USD")}

\* req.Address.State
States == {"NY", "CA"}

TaxRequests ==
  {[LineItems |-> items, ShippingCost |-> ship, State |-> state] :
     items \in UNION {[1..n -> TaxLines] : n \in 0..MaxLines}, ship \in ShippingCosts,
     state \in States}

AppliedTaxRate(r, state) == [Name |-> "Sales Tax", Rate |-> r, Jurisdiction |-> state]

\* the zero value a skipped entry of lineItemTaxes keeps
NoLineItemTax == [LineItemID |-> "", TaxAmount |-> Money(0, ""), TaxRates |-> <<>>]

\* (variant: the taxable flag is not looked at)
RECURSIVE TaxableTotal_CountsAll(_, _)
TaxableTotal_CountsAll(items, k) ==
  IF k > Len(items) THEN 0
  ELSE items[k].Amount.Amount * items[k].Quantity + TaxableTotal_CountsAll(items, k + 1)

\* subtotal: the sum of amount * quantity over the taxable line items
RECURSIVE TaxableTotal(_, _)
TaxableTotal(items, k) ==
  IF k > Len(items) THEN 0
  ELSE (IF items[k].IsTaxable THEN items[k].Amount.Amount * items[k].Quantity ELSE 0)
       + TaxableTotal(items, k + 1)

\* (variant: the rate is looked up by the state of the address)
Calculate_RateOfState(req, r) ==
  LET rate        == IF req.State = "CA" THEN Rate0725 ELSE r
      currency    == IF Len(req.LineItems) > 0 THEN req.LineItems[1].Amount.Currency
                     ELSE "USD"
      subtotal    == TaxableTotal(req.LineItems, 1)
      shippingTax == Float64MulTrunc(req.ShippingCost.Amount, rate)
      totalTax    == Float64MulTrunc(subtotal, rate) + shippingTax
  IN [TotalTax      |-> Money(totalTax, currency),
      TaxRates      |-> <<AppliedTaxRate(r, req.State)>>,
      LineItemTaxes |->
        [i \in DOMAIN req.LineItems |->
           LET item == req.LineItems[i]
           IN IF ~item.IsTaxable THEN NoLineItemTax
              ELSE [LineItemID |-> item.ID,
                    TaxAmount  |-> Money(Float64MulTrunc(item.Amount.Amount * item.Quantity,
                                                         rate),
                                         currency),
                    TaxRates   |-> <<AppliedTaxRate(r, req.State)>>]],
      ShippingTax   |-> Money(shippingTax, currency),
      err           |-> ErrNone]

\* (variant: the tax on shipping is left out of the total)
Calculate_NoShippingInTotal(req, r) ==
  LET currency    == IF Len(req.LineItems) > 0 THEN req.LineItems[1].Amount.Currency
                     ELSE "USD"
      subtotal    == TaxableTotal(req.LineItems, 1)
      shippingTax == Float64MulTrunc(req.ShippingCost.Amount, r)
      totalTax    == Float64MulTrunc(subtotal, r)
  IN [TotalTax      |-> Money(totalTax, currency),
      TaxRates      |-> <<AppliedTaxRate(r, req.State)>>,
      LineItemTaxes |->
        [i \in DOMAIN req.LineItems |->
           LET item == req.LineItems[i]
           IN IF ~item.IsTaxable THEN NoLineItemTax
              ELSE [LineItemID |-> item.ID,
                    TaxAmount  |-> Money(Float64MulTrunc(item.Amount.Amount * item.Quantity, r),
                                         currency),
                    TaxRates   |-> <<AppliedTaxRate(r, req.State)>>]],
      ShippingTax   |-> Money(shippingTax, currency),
      err           |-> ErrNone]

Calculate(req, r) ==
  LET currency    == IF Len(req.LineItems) > 0 THEN req.LineItems[1].Amount.Currency
                     ELSE "USD"
      subtotal    == TaxableTotal(req.LineItems, 1)
      shippingTax == Float64MulTrunc(req.ShippingCost.Amount, r)
      totalTax    == Float64MulTrunc(subtotal, r) + shippingTax
  IN [TotalTax      |-> Money(totalTax, currency),
      TaxRates      |-> <<AppliedTaxRate(r, req.State)>>,
      LineItemTaxes |->
        [i \in DOMAIN req.LineItems |->
           LET item == req.LineItems[i]
           IN IF ~item.IsTaxable THEN NoLineItemTax
              ELSE [LineItemID |-> item.ID,
                    TaxAmount  |-> Money(Float64MulTrunc(item.Amount.Amount * item.Quantity, r),
                                         currency),
                    TaxRates   |-> <<AppliedTaxRate(r, req.State)>>]],
      ShippingTax   |-> Money(shippingTax, currency),
      err           |-> ErrNone]

\* a request comes in for a calculator built with rate r
TaxRequest ==
  /\ last.op \notin {"request", "Calculate"}
  /\ \E req \in TaxRequests, r \in Rates :
       last' = [op |-> "request", req |-> req, rate |-> r]
  /\ UNCHANGED <<cartRows, itemRows, orderRows, now, tx, co, productRows>>

TaxCalculate ==
  /\ last.op = "request"
  /\ last' = [op |-> "Calculate", req |-> last.req, rate |-> last.rate,
              res |-> Calculate(last.req, last.rate)]
  /\ UNCHANGED <<cartRows, itemRows, orderRows, now, tx, co, productRows>>

NextTax == TaxRequest \/ TaxCalculate

SpecTax == Init /\ [][NextTax]_vars

----------------------------------------------------------------------------
(* Checkout: OrderHandler.CreateOrder, run by concurrent request           *)
(* goroutines of the signed-in user.  A request reads the user's cart,     *)
(* checks it, and has the order service build and store the order; other   *)
(* requests run between the read and the store.                            *)

User == "u1"

\* the goroutine of the one request of a sequential scenario
Shopper == "p1"

\* the quantities a client asks for; zero removes the item
Quantities == 0..2

RespCreated        == "201 created"
RespInvalidBody    == "400 Invalid request body"
RespCartEmpty      == "400 Cart is empty"
RespInvalidAddress == "400 Invalid address"
RespInternal       == "500 internal error"

PromoOutcomes == {"unset", "error", "none"}

ErrEmptyCart      == "cart is empty"
ErrInvalidAddress == "invalid address"

\* AddressRequest: its fields, and those bound as required
AddressFields ==
  {"FirstName", "LastName", "Company", "Address1", "Address2", "City", "State",
   "PostalCode", "Country", "PhoneNumber"}

\* (variant: the country is not required)
RequiredFields_NoCountry ==
  {"FirstName", "LastName", "Address1", "City", "State", "PostalCode"}

RequiredFields ==
  {"FirstName", "LastName", "Address1", "City", "State", "PostalCode", "Country"}

NoAddress == [nil |-> TRUE]    \* a nil *AddressRequest

\* an address of the request body: who fills the fields in, the fields in
\* missing stay empty
AddressRequest(who, missing) ==
  [f \in AddressFields |-> IF f \in missing THEN "" ELSE who]

\* the request bodies: a shipping address that is complete or lacks a
\* field, and no billing address
CreateOrderRequests ==
  {[ShippingAddress |-> AddressRequest("s", missing), BillingAddress |-> NoAddress] :
     missing \in {{}, {"FirstName"}, {"Country"}}}

\* ShouldBindJSON: every field tagged required is present and not empty
ShouldBindJSON(req) ==
  /\ \A f \in RequiredFields : req.ShippingAddress[f] # ""
  /\ req.BillingAddress # NoAddress => \A f \in RequiredFields : req.BillingAddress[f] # ""

\* the field of orders.Address a field of the request is copied to
DomainField(f) ==
  CASE f = "Address1"    -> "AddressLine1"
    [] f = "Address2"    -> "AddressLine2"
    [] f = "PhoneNumber" -> "Phone"
    [] OTHER             -> f

\* the conversion of a request address to orders.Address
ToAddress(a) ==
  [g \in {DomainField(f) : f \in AddressFields} |->
     a[CHOOSE f \in AddressFields : DomainField(f) = g]]

\* orders.CreateOrderRequest as the handler fills it in; the billing
\* address is the shipping address when the body has none
ToCreateRequest(req, userID, cart) ==
  [Cart            |-> cart,
   UserID          |-> userID,
   ShippingAddress |-> ToAddress(req.ShippingAddress),
   BillingAddress  |-> IF req.BillingAddress # NoAddress THEN ToAddress(req.BillingAddress)
                       ELSE ToAddress(req.ShippingAddress)]

\* the order service's check of an address: every required field is filled
AddressValid(addr) == \A f \in RequiredFields : addr[DomainField(f)] # ""

\* (variant: every call returns the same id)
GenerateID_Constant(p, n) == <<"p0", 0>>

\* uuid.New(): a value no other call returns; the n-th call of goroutine p
GenerateID(p, n) == <<p, n>>

\* "ORD-" and the first 8 characters of a new uuid: a number no stored
\* order carries (the least one stands for them all), or the number of a
\* stored order when the 8 characters repeat
GenerateOrderNumber(orders) ==
  LET used == {o.OrderNumber : o \in orders}
  IN used \cup {<<"ORD", CHOOSE k \in 0..Cardinality(used) : <<"ORD", k>> \notin used>>}

\* the carts FindByUserID may return for userID; none when no header matches
CartsOfUser(carts, items, userID) ==
  LET match  == {x \in StoredCarts(carts) : carts[x].UserID = userID}
      dbCart == First(carts, match)
  IN IF dbCart = NoRow THEN {}
     ELSE {toDomain(dbCart, items, order) : order \in OrderedItemRows(items, dbCart.ID)}

\* the cart created on the user's first access
NewCart(userID, t) == Cart(CHOOSE id \in CartIds : UserOf(id) = userID, <<>>, t)

\* (variant: no cart counts as empty)
CartIsEmpty_Never(cart) == FALSE

\* len(cart.Items) == 0
CartIsEmpty(cart) == Len(cart.Items) = 0

\* the frozen copy of a cart item in an order
OrderItem(item) ==
  [ProductID |-> item.ProductID, VariantID |-> item.VariantID, SKU |-> item.SKU,
   Name |-> item.Name, UnitPrice |-> item.Price, Quantity |-> item.Quantity,
   Total |-> Money(item.Price.Amount * item.Quantity, item.Price.Currency)]

\* the currency of a cart's amounts: that of its items, "USD" without items
CartCurrency(cart) ==
  IF Len(cart.Items) = 0 THEN "USD" ELSE cart.Items[1].Price.Currency

\* the tax request the pricing service hands to the calculator: one taxable
\* line per cart item, no shipping cost
CartTaxRequest(cart, addr) ==
  [LineItems    |-> [k \in DOMAIN cart.Items |->
                       LineItem(cart.Items[k].ID, cart.Items[k].Price.Amount,
                                cart.Items[k].Price.Currency, cart.Items[k].Quantity, TRUE)],
   ShippingCost |-> Money(0, CartCurrency(cart)),
   State        |-> addr.State]

\* the order built from a request; promo is what the promotion lookup
\* gave: without a promotion the prices are the base prices
NewOrder(p, n, req, number, promo) ==
  LET taxReq == CartTaxRequest(req.Cart, req.ShippingAddress)
      cy     == CartCurrency(req.Cart)
      sub    == TaxableTotal(taxReq.LineItems, 1)
      disc   == 0
      taxed  == Calculate(taxReq, Rate0875).TotalTax.Amount
      ship   == taxReq.ShippingCost.Amount
  IN [ID              |-> GenerateID(p, n),
      OrderNumber     |-> number,
      UserID          |-> req.UserID,
      Status          |-> "pending",
      Items           |-> [k \in DOMAIN req.Cart.Items |-> OrderItem(req.Cart.Items[k])],
      ShippingAddress |-> req.ShippingAddress,
      BillingAddress  |-> req.BillingAddress,
      Subtotal        |-> Money(sub, cy),
      DiscountTotal   |-> Money(disc, cy),
      TaxTotal        |-> Money(taxed, cy),
      ShippingTotal   |-> Money(ship, cy),
      Total           |-> Money(sub - disc + taxed + ship, cy),
      CanceledAt      |-> Nil,
      CompletedAt     |-> <<>>]    \* *time.Time: <<>> is nil, <<t>> points at t

\* database.MarshalJSON and UnmarshalJSON of a value that is not a map
MarshalValue(v) == [json |-> v]

UnmarshalValue(d) == d.json

\* (variant: the items are not written)
OrderToDatabase_NoItems(order) ==
  [ID              |-> order.ID,
   OrderNumber     |-> order.OrderNumber,
   UserID          |-> order.UserID,
   Status          |-> order.Status,
   Items           |-> MarshalValue(<<>>),
   ShippingAddress |-> MarshalValue(order.ShippingAddress),
   BillingAddress  |-> MarshalValue(order.BillingAddress),
   Subtotal        |-> order.Subtotal.Amount,
   DiscountTotal   |-> order.DiscountTotal.Amount,
   TaxTotal        |-> order.TaxTotal.Amount,
   ShippingTotal   |-> order.ShippingTotal.Amount,
   Total           |-> order.Total.Amount,
   Currency        |-> order.Total.Currency,
   CancelledAt     |-> order.CanceledAt]

\* OrderRepository.toDatabase: items and addresses as JSON columns, the five
\* amounts as integers, and one currency column, that of the total
OrderToDatabase(order) ==
  [ID              |-> order.ID,
   OrderNumber     |-> order.OrderNumber,
   UserID          |-> order.UserID,
   Status          |-> order.Status,
   Items           |-> MarshalValue(order.Items),
   ShippingAddress |-> MarshalValue(order.ShippingAddress),
   BillingAddress  |-> MarshalValue(order.BillingAddress),
   Subtotal        |-> order.Subtotal.Amount,
   DiscountTotal   |-> order.DiscountTotal.Amount,
   TaxTotal        |-> order.TaxTotal.Amount,
   ShippingTotal   |-> order.ShippingTotal.Amount,
   Total           |-> order.Total.Amount,
   Currency        |-> order.Total.Currency,
   CancelledAt     |-> order.CanceledAt]

\* OrderRepository.toDomain
OrderToDomain(dbOrder) ==
  [ID              |-> dbOrder.ID,
   OrderNumber     |-> dbOrder.OrderNumber,
   UserID          |-> dbOrder.UserID,
   Status          |-> dbOrder.Status,
   Items           |-> UnmarshalValue(dbOrder.Items),
   ShippingAddress |-> UnmarshalValue(dbOrder.ShippingAddress),
   BillingAddress  |-> UnmarshalValue(dbOrder.BillingAddress),
   Subtotal        |-> Money(dbOrder.Subtotal, dbOrder.Currency),
   DiscountTotal   |-> Money(dbOrder.DiscountTotal, dbOrder.Currency),
   TaxTotal        |-> Money(dbOrder.TaxTotal, dbOrder.Currency),
   ShippingTotal   |-> Money(dbOrder.ShippingTotal, dbOrder.Currency),
   Total           |-> Money(dbOrder.Total, dbOrder.Currency),
   CanceledAt      |-> dbOrder.CancelledAt,
   CompletedAt     |-> <<>>]    \* not set: the row has no such column

\* (variant: the row is keyed by its owner)
OrderSave_KeyedByUser(orders, order) ==
  [orders |-> {o \in orders : o.UserID # order.UserID} \cup {OrderToDatabase(order)},
   err |-> ErrNone]

\* (variant: order_number has no unique index)
OrderSave_NoUniqueIndex(orders, order) ==
  [orders |-> {o \in orders : o.ID # order.ID} \cup {OrderToDatabase(order)},
   err |-> ErrNone]

\* OrderRepository.Save: db.Save of the order row, an upsert on its id; the
\* unique index on order_number rejects a number another row carries
OrderSave(orders, order) ==
  IF \E o \in orders : o.ID # order.ID /\ o.OrderNumber = order.OrderNumber
    THEN [orders |-> orders, err |-> ErrPersistence]
    ELSE [orders |-> {o \in orders : o.ID # order.ID} \cup {OrderToDatabase(order)},
          err |-> ErrNone]

\* orders.Service.CreateFromCart: the order and the table after it, or the
\* error it returns; promo: the outcome of the promotion lookup ("unset",
\* "error" or "none", no promotion applies); fault: the order store fails
CreateFromCart(orders, p, n, req, number, promo, fault) ==
  IF CartIsEmpty(req.Cart)
    THEN [orders |-> orders, order |-> Nil, err |-> ErrEmptyCart]
  ELSE IF ~AddressValid(req.ShippingAddress)
    THEN [orders |-> orders, order |-> Nil, err |-> ErrInvalidAddress]
  ELSE IF fault
    THEN [orders |-> orders, order |-> Nil, err |-> ErrPersistence]
  ELSE LET order == NewOrder(p, n, req, number, promo)
           r     == OrderSave(orders, order)
       IN [orders |-> r.orders, err |-> r.err,
           order |-> IF r.err = ErrNone THEN order.ID ELSE Nil]

\* the request arrives and is bound; co[p].req is the body while the request
\* is served, and the body that was refused; overlapped records that another checkout was under
\* way at that moment
CheckoutBegin(p) ==
  /\ co[p].pc = "idle"
  /\ Cardinality(orderRows) + Cardinality({q \in Procs : co[q].pc # "idle"}) < MaxOrders
  /\ \E req \in CreateOrderRequests :
       co' = [co EXCEPT ![p] =
                IF ShouldBindJSON(req)
                  THEN [IdleCheckout EXCEPT !.pc = "cart", !.n = co[p].n, !.req = req,
                          !.overlapped = \E q \in Procs \ {p} : co[q].pc # "idle"]
                  ELSE [IdleCheckout EXCEPT !.n = co[p].n, !.req = req,
                          !.res = RespInvalidBody]]
  /\ UNCHANGED <<cartRows, itemRows, orderRows, now, last, tx, productRows>>

\* cartService.GetOrCreateCart(ctx, userID, ""), found
GetCartFound(p) ==
  /\ co[p].pc = "cart"
  /\ \E cart \in CartsOfUser(cartRows, itemRows, User) :
       co' = [co EXCEPT ![p].cart = cart, ![p].pc = "order"]
  /\ UNCHANGED <<cartRows, itemRows, orderRows, now, last, tx, productRows>>

\* cartService.GetOrCreateCart(ctx, userID, ""), first access: the cart is
\* created and saved
GetCartCreated(p) ==
  /\ co[p].pc = "cart"
  /\ CartsOfUser(cartRows, itemRows, User) = {}
  /\ LET cart == NewCart(User, now)
         r    == SaveResult(cartRows, itemRows, cart, now, 0)
     IN /\ cartRows' = r.carts
        /\ itemRows' = r.items
        /\ co' = [co EXCEPT ![p].cart = cart, ![p].pc = "order"]
  /\ UNCHANGED <<orderRows, now, last, tx, productRows>>

\* cartService.GetOrCreateCart returned an error
GetCartFailed(p) ==
  /\ co[p].pc = "cart"
  /\ co' = [co EXCEPT ![p].res = RespInternal, ![p].pc = "idle", ![p].req = Nil]
  /\ UNCHANGED <<cartRows, itemRows, orderRows, now, last, tx, productRows>>

\* (variant: the handler clears the cart once the order is stored)
CreateOrder_ThenClears(p) ==
  /\ co[p].pc = "order"
  /\ ~CartIsEmpty(co[p].cart)
  /\ \E number \in GenerateOrderNumber(orderRows) :
       LET r == CreateFromCart(orderRows, p, co[p].n,
                               ToCreateRequest(co[p].req, User, co[p].cart),
                               number, "none", FALSE)
           c == SaveResult(cartRows, itemRows, [co[p].cart EXCEPT !.Items = <<>>], now, 0)
       IN /\ orderRows' = r.orders
          /\ cartRows' = c.carts
          /\ itemRows' = c.items
          /\ co' = [co EXCEPT ![p].pc = "idle", ![p].req = Nil, ![p].order = r.order,
                              ![p].res = IF r.err = ErrNone THEN RespCreated ELSE RespInternal]
  /\ UNCHANGED <<now, last, tx, productRows>>

\* the empty check, CreateFromCart and the response
CreateOrder(p) ==
  /\ co[p].pc = "order"
  /\ IF CartIsEmpty(co[p].cart)
       THEN /\ co' = [co EXCEPT ![p].res = RespCartEmpty, ![p].pc = "idle",
                               ![p].req = Nil]
            /\ UNCHANGED orderRows
       ELSE \E fault \in BOOLEAN, number \in GenerateOrderNumber(orderRows),
               promo \in PromoOutcomes :
            \E r \in {CreateFromCart(orderRows, p, co[p].n,
                                      ToCreateRequest(co[p].req, User, co[p].cart),
                                      number, promo, fault)} :
              /\ orderRows' = r.orders
              /\ co' = [co EXCEPT ![p].pc = "idle",
                           ![p].req = Nil,
                           ![p].order = r.order,
                           ![p].n = IF r.err = ErrNone THEN @ + 1 ELSE @,
                           ![p].res = IF r.err = ErrNone THEN RespCreated
                                      ELSE IF r.err = ErrEmptyCart THEN RespCartEmpty
                                      ELSE IF r.err = ErrInvalidAddress
                                        THEN RespInvalidAddress
                                      ELSE RespInternal]
  /\ UNCHANGED <<cartRows, itemRows, now, last, tx, productRows>>

\* the cart item cartService.AddItem makes of a product: its name, SKU and
\* base price as the product store holds them at that moment
ItemOfProduct(id, product, quantity, t) ==
  [CartItem(id, 1, t) EXCEPT !.ProductID = product.ID, !.SKU = product.SKU,
                             !.Name = product.Name, !.Price = product.BasePrice,
                             !.Quantity = quantity]

\* the product the signed-in user shops for
Shopped(products) == {ProductToDomain(r) : r \in {x \in products : x.ID = "p1"}}

\* CartHandler.AddItem of a product as a line not yet in the cart
AddItem ==
  /\ \E cart \in CartsOfUser(cartRows, itemRows, User) :
       \E id \in ItemIds \ SeqIds(cart.Items), product \in Shopped(productRows) :
         \E r \in {SaveResult(cartRows, itemRows,
                                [cart EXCEPT !.Items = Append(@, ItemOfProduct(id, product, 1, now))],
                                now, 0)} :
           /\ cartRows' = r.carts
           /\ itemRows' = r.items
  /\ UNCHANGED <<orderRows, now, last, tx, co, productRows>>

\* CartHandler.ClearCart
ClearCart ==
  /\ \E cart \in CartsOfUser(cartRows, itemRows, User) :
       /\ cart.Items # <<>>
       /\ \E r \in {SaveResult(cartRows, itemRows, [cart EXCEPT !.Items = <<>>], now, 0)} :
            /\ cartRows' = r.carts
            /\ itemRows' = r.items
  /\ UNCHANGED <<orderRows, now, last, tx, co, productRows>>

NextCheckout ==
  \/ \E p \in Procs : CheckoutBegin(p)
  \/ \E p \in Procs : GetCartFound(p)
  \/ \E p \in Procs : GetCartCreated(p)
  \/ \E p \in Procs : GetCartFailed(p)
  \/ \E p \in Procs : CreateOrder(p)
  \/ AddItem
  \/ ClearCart

SpecCheckout == Init /\ [][NextCheckout]_vars

----------------------------------------------------------------------------
(* The order store by itself: OrderRepository as the order service and any *)
(* other holder of orders.Repository may call it.                          *)

OrderStatuses == {"pending", "processing", "shipped", "delivered", "canceled"}

\* The orders handed to Save.  k selects id and number; rev selects the
\* content: 1 and 2 are orders as checkout builds them, of different owners,
\* items, addresses and totals; 3 is the first with the tax in another
\* currency and a total that is not the sum.
Order(k, number, status, rev) ==
  LET who   == IF rev = 2 THEN "b" ELSE "s"
      item  == ItemOfProduct("a", Product("p1", IF rev = 2 THEN 120 ELSE 100),
                             IF rev = 2 THEN 2 ELSE 1, ZeroTime)
      req   == ToCreateRequest([ShippingAddress |-> AddressRequest(who, {}),
                                BillingAddress |-> NoAddress],
                               IF rev = 2 THEN "u2" ELSE User,
                               Cart("X", <<item>>, ZeroTime))
  IN CHOOSE order \in
       {[built EXCEPT
           !.Status = status,
           !.CanceledAt = IF status = "canceled" THEN ClockStart ELSE Nil,
           !.CompletedAt = IF status = "delivered" THEN <<ClockStart>> ELSE <<>>,
           !.TaxTotal = IF rev = 3 THEN Money(built.TaxTotal.Amount, "EUR") ELSE @,
           !.Total = IF rev = 3 THEN built.Subtotal ELSE @] :
          built \in {NewOrder(Shopper, k, req, <<"ORD", number>>, "none")}} : TRUE

OrderInputs ==
  {Order(k, number, status, rev) :
     k \in 0..1, number \in 0..1, status \in OrderStatuses, rev \in 1..3}

OrderIds == {order.ID : order \in OrderInputs}

OrderCall(op, id, order, err) == [op |-> op, id |-> id, order |-> order, err |-> err]

NoOrder == [ID |-> "noorder"]    \* a nil *orders.Order

\* OrderRepository.Save
OrderRepoSave ==
  /\ \E order \in OrderInputs :
       \E r \in {OrderSave(orderRows, order)} :
         /\ orderRows' = r.orders
         /\ last' = OrderCall("OrderSave", order.ID, order, r.err)
  /\ UNCHANGED <<cartRows, itemRows, now, tx, co, productRows>>

\* OrderRepository.Delete
OrderRepoDelete ==
  /\ \E id \in OrderIds :
       /\ orderRows' = {o \in orderRows : o.ID # id}
       /\ last' = OrderCall("OrderDelete", id, NoOrder, ErrNone)
  /\ UNCHANGED <<cartRows, itemRows, now, tx, co, productRows>>

ErrOrderNotFound == "order not found"

\* OrderRepository.FindByID
OrderRepoFindByID ==
  /\ \E id \in OrderIds :
       LET found == {o \in orderRows : o.ID = id}
       IN \/ /\ found = {}
             /\ last' = OrderCall("OrderFindByID", id, NoOrder, ErrOrderNotFound)
          \/ \E o \in found :
               last' = OrderCall("OrderFindByID", id, OrderToDomain(o), ErrNone)
  /\ UNCHANGED <<cartRows, itemRows, orderRows, now, tx, co, productRows>>

NextOrders ==
  \/ OrderRepoSave
  \/ OrderRepoDelete
  \/ OrderRepoFindByID

SpecOrders == Init /\ [][NextOrders]_vars

----------------------------------------------------------------------------
(* Optional price resolvers: CatalogService with or without a              *)
(* SalePriceResolver, and the order service's promotion lookup.            *)

\* A resolver as the service holds it: none, one whose calls fail, or one
\* that knows sale prices for the products in onSale.
NoResolver      == [set |-> FALSE, fails |-> FALSE, onSale |-> {}]
FailingResolver == [set |-> TRUE, fails |-> TRUE, onSale |-> {}]
Resolver(onSale) == [set |-> TRUE, fails |-> FALSE, onSale |-> onSale]

Resolvers == {NoResolver, FailingResolver} \cup {Resolver(onSale) : onSale \in SUBSET ProductIds}

\* pricing.ProductPrice of a product on sale: nine tenths of the lowest base price
ProductPrice(id) ==
  [ProductID |-> id,
   Price     |-> Money(((CHOOSE a \in BasePrices(id) : \A b \in BasePrices(id) : a <= b) * 9) \div 10,
                       Product(id, 0).BasePrice.Currency)]

NoPrice == [ProductID |-> "noprice"]      \* a nil *pricing.ProductPrice
NoMoney == [Amount |-> -1, Currency |-> "nil"]   \* a nil *money.Money
NoProduct == [ID |-> "noproduct"]         \* a nil *catalog.Product

ErrResolver        == "price service unavailable"
ErrProductNotFound == "product not found"

\* SalePriceResolver.FindEffectivePrice
FindEffectivePrice(resolver, id) ==
  IF resolver.fails THEN [price |-> NoPrice, err |-> ErrResolver]
  ELSE IF id \in resolver.onSale THEN [price |-> ProductPrice(id), err |-> ErrNone]
  ELSE [price |-> NoPrice, err |-> ErrNone]

\* SalePriceResolver.FindEffectivePrices: the prices of those of ids on sale
FindEffectivePrices(resolver, ids) ==
  IF resolver.fails THEN [prices |-> {}, err |-> ErrResolver]
  ELSE [prices |-> {ProductPrice(id) : id \in ids \cap resolver.onSale}, err |-> ErrNone]

\* ProductRepository.FindByID; fault: the store fails
ProductFindByID(products, id, fault) ==
  IF fault THEN [product |-> NoProduct, err |-> ErrPersistence]
  ELSE IF \A r \in products : r.ID # id THEN [product |-> NoProduct, err |-> ErrProductNotFound]
  ELSE [product |-> ProductToDomain(CHOOSE r \in products : r.ID = id), err |-> ErrNone]

ProductResponse(product, salePrice) == [Product |-> product, SalePrice |-> salePrice]

\* (variant: an error of the resolver is returned to the caller)
GetProduct_Propagates(products, id, resolver, fault) ==
  LET found == ProductFindByID(products, id, fault)
      sale  == FindEffectivePrice(resolver, id)
  IN IF found.err # ErrNone THEN [response |-> NoProduct, err |-> found.err]
     ELSE IF resolver.set /\ sale.err # ErrNone THEN [response |-> NoProduct, err |-> sale.err]
     ELSE [response |-> ProductResponse(found.product,
                                        IF resolver.set /\ sale.price # NoPrice
                                          THEN sale.price.Price ELSE NoMoney),
           err |-> ErrNone]

\* CatalogService.GetProduct
GetProduct(products, id, resolver, fault) ==
  LET found == ProductFindByID(products, id, fault)
      sale  == FindEffectivePrice(resolver, id)
  IN IF found.err # ErrNone THEN [response |-> NoProduct, err |-> found.err]
     ELSE [response |-> ProductResponse(found.product,
                                        IF resolver.set /\ sale.err = ErrNone /\ sale.price # NoPrice
                                          THEN sale.price.Price ELSE NoMoney),
           err |-> ErrNone]

\* CatalogService.enrichWithSalePrices of the products a query returned
enrichWithSalePrices(resolver, list) ==
  LET sale == FindEffectivePrices(resolver, {list[i].ID : i \in DOMAIN list})
  IN IF ~resolver.set \/ sale.err # ErrNone
       THEN [responses |-> [i \in DOMAIN list |-> ProductResponse(list[i], NoMoney)],
             err |-> ErrNone]
       ELSE [responses |->
               [i \in DOMAIN list |->
                  ProductResponse(list[i],
                                  IF \E pp \in sale.prices : pp.ProductID = list[i].ID
                                    THEN (CHOOSE pp \in sale.prices : pp.ProductID = list[i].ID).Price
                                    ELSE NoMoney)],
             err |-> ErrNone]

\* the sequences a query without an order may return the rows in
Listings(rows) ==
  {list \in [1..Cardinality(rows) -> {ProductToDomain(r) : r \in rows}] :
     \A i, j \in DOMAIN list : i # j => list[i] # list[j]}

\* CatalogService.ListProducts over the list the product store returned
ListProducts(list, resolver, fault) ==
  IF fault THEN [responses |-> <<>>, err |-> ErrPersistence]
  ELSE enrichWithSalePrices(resolver, list)

\* ids asked for: those of the products and one no product has
LookupIds == ProductIds \cup {"p0"}

\* a caller asks for one product
CatalogGetProduct ==
  /\ \E id \in LookupIds, resolver \in Resolvers, fault \in BOOLEAN :
       last' = [op |-> "GetProduct", id |-> id, resolver |-> resolver, fault |-> fault,
                res |-> GetProduct(productRows, id, resolver, fault)]
  /\ UNCHANGED <<cartRows, itemRows, orderRows, now, tx, co, productRows>>

\* a caller asks for the list of products
CatalogListProducts ==
  /\ \E list \in Listings(productRows), resolver \in Resolvers, fault \in BOOLEAN :
       last' = [op |-> "ListProducts", list |-> list, resolver |-> resolver, fault |-> fault,
                res |-> ListProducts(list, resolver, fault)]
  /\ UNCHANGED <<cartRows, itemRows, orderRows, now, tx, co, productRows>>

\* ProductRepository.Delete
ProductDelete ==
  /\ \E id \in ProductIds : productRows' = {r \in productRows : r.ID # id}
  /\ UNCHANGED <<cartRows, itemRows, orderRows, now, last, tx, co>>

\* the order service builds an order of a cart holding the product at its
\* stored price, whatever the promotion lookup gives
PricedCheckout ==
  /\ \E product \in Shopped(productRows), quantity \in Quantities \ {0},
        promo \in PromoOutcomes, fault \in BOOLEAN :
       LET req == ToCreateRequest([ShippingAddress |-> AddressRequest("s", {}),
                                   BillingAddress |-> NoAddress], User,
                                  Cart("X", <<ItemOfProduct("a", product, quantity, now)>>, now))
       IN last' = [op |-> "CreateFromCart", req |-> req, promo |-> promo, fault |-> fault,
                   res |-> CreateFromCart(orderRows, Shopper, 0, req, <<"ORD", 0>>, promo, fault)]
  /\ UNCHANGED <<cartRows, itemRows, orderRows, now, tx, co, productRows>>

NextCatalog ==
  \/ CatalogGetProduct
  \/ CatalogListProducts
  \/ PricedCheckout
  \/ ProductSave
  \/ ProductDelete

SpecCatalog == Init /\ [][NextCatalog]_vars

----------------------------------------------------------------------------
(* The cart after checkout: one shopper checks out, goes on changing the   *)
(* cart, and the catalog changes its prices.                               *)

\* the item list without its k-th item
WithoutItem(items, k) == SubSeq(items, 1, k - 1) \o SubSeq(items, k + 1, Len(items))

\* binding:"required,gt=0" of AddItemRequest.Quantity
BindAddItem(quantity) == quantity # 0 /\ quantity > 0

\* binding:"required,gte=0" of UpdateItemQuantityRequest.Quantity: required
\* refuses the zero value of an int
BindUpdateItemQuantity(quantity) == quantity # 0 /\ quantity >= 0

\* cartService.UpdateItemQuantity on the k-th item: quantity zero removes it
SetQuantity(items, k, quantity) ==
  IF quantity = 0 THEN WithoutItem(items, k)
  ELSE [items EXCEPT ![k].Quantity = quantity]

\* CartHandler.UpdateItemQuantity to another quantity than the item has; a
\* body that does not bind is answered 400 and changes nothing
UpdateItemQuantity ==
  /\ \E cart \in CartsOfUser(cartRows, itemRows, User) :
       \E k \in DOMAIN cart.Items :
         \E quantity \in Quantities \ {cart.Items[k].Quantity} :
         \E r \in {SaveResult(cartRows, itemRows,
                                [cart EXCEPT !.Items = SetQuantity(@, k, quantity)],
                                now, 0)} :
           /\ BindUpdateItemQuantity(quantity)
           /\ cartRows' = r.carts
           /\ itemRows' = r.items
  /\ UNCHANGED <<orderRows, now, last, tx, co, productRows>>

\* CartHandler.RemoveItem
RemoveItem ==
  /\ \E cart \in CartsOfUser(cartRows, itemRows, User) :
       \E k \in DOMAIN cart.Items :
         \E r \in {SaveResult(cartRows, itemRows,
                                [cart EXCEPT !.Items = WithoutItem(cart.Items, k)], now, 0)} :
           /\ cartRows' = r.carts
           /\ itemRows' = r.items
  /\ UNCHANGED <<orderRows, now, last, tx, co, productRows>>

\* the shopper's next checkout request
SnapshotBegin ==
  /\ Cardinality(orderRows) < MaxSnapshots
  /\ CheckoutBegin(Shopper)

NextSnapshot ==
  \/ SnapshotBegin
  \/ GetCartFound(Shopper)
  \/ GetCartCreated(Shopper)
  \/ CreateOrder(Shopper)
  \/ AddItem
  \/ UpdateItemQuantity
  \/ RemoveItem
  \/ ClearCart
  \/ ProductSave

SpecSnapshot == Init /\ [][NextSnapshot]_vars

----------------------------------------------------------------------------
(* The cart endpoints of one signed-in user, request by request.           *)

RespOK           == "200 ok"
RespItemNotFound == "404 Item not found in cart"

\* last records the request and its answer
CartCall(op, id, quantity, res) == [op |-> op, id |-> id, quantity |-> quantity, res |-> res]

\* cartService.GetOrCreateCart(ctx, userID, ""): the user's cart, created
\* and saved on the first access
GetOrCreateCart(carts, items, t) ==
  LET found == CartsOfUser(carts, items, User)
  IN IF found # {}
       THEN {[cart |-> c, carts |-> carts, items |-> items] : c \in found}
       ELSE {[cart |-> NewCart(User, t), carts |-> r.carts, items |-> r.items] :
               r \in {SaveResult(carts, items, NewCart(User, t), t, 0)}}

\* the position of the item with that id, if any
Positions(items, id) == {k \in DOMAIN items : items[k].ID = id}

\* POST /cart/items
CartAddItem ==
  /\ \E quantity \in Quantities, g \in GetOrCreateCart(cartRows, itemRows, now) :
       IF ~BindAddItem(quantity)
         THEN /\ last' = CartCall("AddItem", Nil, quantity, RespInvalidBody)
              /\ UNCHANGED <<cartRows, itemRows>>
         ELSE \E id \in ItemIds \ SeqIds(g.cart.Items), product \in Shopped(productRows) :
              \E r \in {SaveResult(g.carts, g.items,
                                     [g.cart EXCEPT !.Items =
                                        Append(@, ItemOfProduct(id, product, quantity, now))],
                                     now, 0)} :
                /\ cartRows' = r.carts
                /\ itemRows' = r.items
                /\ last' = CartCall("AddItem", id, quantity, RespOK)
  /\ UNCHANGED <<orderRows, now, tx, co, productRows>>

\* PATCH /cart/items/:id
CartUpdateItemQuantity ==
  /\ \E id \in ItemIds, quantity \in Quantities,
        g \in GetOrCreateCart(cartRows, itemRows, now) :
       IF ~BindUpdateItemQuantity(quantity)
         THEN /\ last' = CartCall("UpdateItemQuantity", id, quantity, RespInvalidBody)
              /\ UNCHANGED <<cartRows, itemRows>>
       ELSE IF Positions(g.cart.Items, id) = {}
         THEN /\ last' = CartCall("UpdateItemQuantity", id, quantity, RespItemNotFound)
              /\ cartRows' = g.carts
              /\ itemRows' = g.items
       ELSE \E k \in Positions(g.cart.Items, id) :
            \E r \in {SaveResult(g.carts, g.items,
                                   [g.cart EXCEPT !.Items = SetQuantity(@, k, quantity)],
                                   now, 0)} :
              /\ cartRows' = r.carts
              /\ itemRows' = r.items
              /\ last' = CartCall("UpdateItemQuantity", id, quantity, RespOK)
  /\ UNCHANGED <<orderRows, now, tx, co, productRows>>

\* DELETE /cart/items/:id
CartRemoveItem ==
  /\ \E id \in ItemIds, g \in GetOrCreateCart(cartRows, itemRows, now) :
       IF Positions(g.cart.Items, id) = {}
         THEN /\ last' = CartCall("RemoveItem", id, 0, RespItemNotFound)
              /\ cartRows' = g.carts
              /\ itemRows' = g.items
       ELSE \E k \in Positions(g.cart.Items, id) :
            \E r \in {SaveResult(g.carts, g.items,
                                   [g.cart EXCEPT !.Items = WithoutItem(@, k)], now, 0)} :
              /\ cartRows' = r.carts
              /\ itemRows' = r.items
              /\ last' = CartCall("RemoveItem", id, 0, RespOK)
  /\ UNCHANGED <<orderRows, now, tx, co, productRows>>

\* DELETE /cart
CartClear ==
  /\ \E g \in GetOrCreateCart(cartRows, itemRows, now) :
       \E r \in {SaveResult(g.carts, g.items, [g.cart EXCEPT !.Items = <<>>], now, 0)} :
         /\ cartRows' = r.carts
         /\ itemRows' = r.items
         /\ last' = CartCall("ClearCart", Nil, 0, RespOK)
  /\ UNCHANGED <<orderRows, now, tx, co, productRows>>

NextCartOps ==
  \/ CartAddItem
  \/ CartUpdateItemQuantity
  \/ CartRemoveItem
  \/ CartClear
  \/ Tick

SpecCartOps == Init /\ [][NextCartOps]_vars

----------------------------------------------------------------------------
(* GET /cart by two requests of one user: GetOrCreateCart looks the cart   *)
(* up and, finding none, creates one under a new id and saves it.          *)

\* utils.GenerateID() as the cart service calls it for a new cart: a uuid
\* no other request draws
NewCartID(p) == IF p = "p1" THEN "X" ELSE "Y"

\* repo.FindByUserID: the cart is returned, or none is found and the
\* request goes on to create one
GetCartLookup(p) ==
  /\ co[p].pc = "idle"
  /\ LET found == CartsOfUser(cartRows, itemRows, User)
     IN IF found = {}
          THEN co' = [co EXCEPT ![p].pc = "create", ![p].res = "none", ![p].cart = NoCart]
          ELSE \E c \in found : co' = [co EXCEPT ![p].cart = c, ![p].res = RespOK]
  /\ UNCHANGED <<cartRows, itemRows, orderRows, now, last, tx, productRows>>

\* the new cart is saved and returned
GetCartCreate(p) ==
  /\ co[p].pc = "create"
  /\ \E cart \in {[NewCart(User, now) EXCEPT !.ID = NewCartID(p)]} :
     \E r \in {SaveResult(cartRows, itemRows, cart, now, 0)} :
       /\ cartRows' = r.carts
       /\ itemRows' = r.items
       /\ co' = [co EXCEPT ![p].pc = "idle", ![p].cart = cart, ![p].res = RespOK]
  /\ UNCHANGED <<orderRows, now, last, tx, productRows>>

NextFirstAccess ==
  \/ \E p \in Procs : GetCartLookup(p)
  \/ \E p \in Procs : GetCartCreate(p)
  \/ RemoveItem
  \/ AddItem
  \/ Tick

SpecFirstAccess == Init /\ [][NextFirstAccess]_vars


----------------------------------------------------------------------------
(* Pagination of the list endpoints: response.GetPaginationParams and what *)
(* CatalogHandler.ListCategories does with the parameters.                 *)

\* a query parameter as the request carries it: absent, or a text that is
\* empty, not a number, or the decimal text of n
QueryValue(present, text, n) == [present |-> present, text |-> text, n |-> n]

QueryValues ==
  {QueryValue(FALSE, "", 0), QueryValue(TRUE, "", 0), QueryValue(TRUE, "abc", 0)}
    \cup {QueryValue(TRUE, "int", n) : n \in {-1, 0, 1, 2, 100, 101}}

\* the form mapping of an int field: an absent parameter leaves the field
\* alone, an empty text is read as 0, a text that is no number is an error
MapIntField(v, field) ==
  IF ~v.present THEN [ok |-> TRUE, val |-> field]
  ELSE IF v.text = "" THEN [ok |-> TRUE, val |-> 0]
  ELSE IF v.text = "int" THEN [ok |-> TRUE, val |-> v.n]
  ELSE [ok |-> FALSE, val |-> field]

\* binding:"omitempty,min=1": the zero value is not validated
ValidPage(val) == val = 0 \/ val >= 1

\* binding:"omitempty,min=1,max=100"
ValidPageSize(val) == val = 0 \/ (val >= 1 /\ val <= 100)

GetPaginationParams(page, pageSize) ==
  LET p == MapIntField(page, 1)
      s == MapIntField(pageSize, 20)
  IN IF p.ok /\ s.ok /\ ValidPage(p.val) /\ ValidPageSize(s.val)
       THEN [Page |-> p.val, PageSize |-> s.val]
       ELSE [Page |-> 1, PageSize |-> 20]

CalculateOffset(p) == (p.Page - 1) * p.PageSize

CalculateLimit(p) == p.PageSize

Panic == [panic |-> TRUE]

\* int(totalItems) / pageSize panics when pageSize is zero
NewPaginationMeta(page, pageSize, totalItems) ==
  IF pageSize = 0 THEN Panic
  ELSE LET totalPages == (totalItems \div pageSize)
                           + (IF totalItems % pageSize > 0 THEN 1 ELSE 0)
       IN [panic |-> FALSE, Page |-> page, PageSize |-> pageSize,
           TotalItems |-> totalItems, TotalPages |-> totalPages,
           HasNext |-> page < totalPages, HasPrev |-> page > 1]

\* the categories the catalog holds
CategoryCounts == 0..2

\* categories[start:end] of n categories and the metadata; a slice
\* expression with a negative start panics
ListCategories(page, pageSize, n) ==
  LET params == GetPaginationParams(page, pageSize)
      offset == CalculateOffset(params)
      start  == IF offset > n THEN n ELSE offset
      end    == IF offset + CalculateLimit(params) > n THEN n
                ELSE offset + CalculateLimit(params)
  IN [params |-> params, offset |-> offset,
      res |-> IF start < 0 \/ start > end THEN Panic
              ELSE NewPaginationMeta(params.Page, params.PageSize, n)]

\* GET /categories?page=..&page_size=..
ListRequest ==
  /\ last.op # "query"
  /\ \E page, pageSize \in QueryValues, n \in CategoryCounts :
       last' = [op |-> "query", page |-> page, pageSize |-> pageSize, n |-> n]
  /\ UNCHANGED <<cartRows, itemRows, orderRows, now, tx, co, productRows>>

CatalogListCategories ==
  /\ last.op = "query"
  /\ last' = [op |-> "ListCategories", page |-> last.page, pageSize |-> last.pageSize,
              n |-> last.n, out |-> ListCategories(last.page, last.pageSize, last.n)]
  /\ UNCHANGED <<cartRows, itemRows, orderRows, now, tx, co, productRows>>

NextPagination == ListRequest \/ CatalogListCategories

SpecPagination == Init /\ [][NextPagination]_vars

----------------------------------------------------------------------------
(* Properties of the cart store *)

SavedOK == last.op = "Save" /\ last.err = ErrNone

IsFind(call) == call.op \in {"FindByID", "FindByUserID", "FindBySessionID"}

\* every cart FindByID(id) can return from the given tables
FindByIDResults(carts, items, id) ==
  IF carts[id] = NoRow THEN {}
  ELSE {toDomain(carts[id], items, order) : order \in OrderedItemRows(items, id)}

\* C1: after a successful Save(cart) the stored item ids of the cart are
\* exactly the ids of cart.Items, and FindByID(cart.ID) finds the cart and
\* returns exactly those ids, whatever ids were stored before.
C1_Reconciliation ==
  SavedOK =>
    /\ PluckIDs(itemRows, last.id) = SeqIds(last.cart.Items)
    /\ FindByIDResults(cartRows, itemRows, last.id) # {}
    /\ \A found \in FindByIDResults(cartRows, itemRows, last.id) :
         SeqIds(found.Items) = SeqIds(last.cart.Items)

\* a Save that both removed a stored id and inserted a new one
C1_Witness ==
  /\ SavedOK
  /\ last.existing \ SeqIds(last.cart.Items) # {}
  /\ SeqIds(last.cart.Items) \ last.existing # {}

\* C2: a Save in which a statement fails returns an error and leaves the
\* header rows and item rows exactly as they were before the call.
C2_AllOrNothing ==
  [][(last'.op = "Save" /\ last'.err # ErrNone)
       => (cartRows' = cartRows /\ itemRows' = itemRows)]_vars

\* a failed Save of a non-empty cart over a cart that has stored rows
C2_Witness ==
  /\ last.op = "Save"
  /\ last.err = ErrPersistence
  /\ Len(last.cart.Items) > 0
  /\ cartRows[last.id] # NoRow
  /\ PluckIDs(itemRows, last.id) # {}

\* C5 as stated: a second Save of the same unchanged cart leaves storage
\* identical, no row changed.
C5_IdempotentExact ==
  [][(last'.op = "Save" /\ last'.again)
       => (cartRows' = cartRows /\ itemRows' = itemRows)]_vars

\* the columns of a header row that a repeated Save may re-stamp: updated_at
\* always, created_at when the cart carries the zero time
HeaderUpToStamps(row, c) ==
  IF row = NoRow THEN row
  ELSE [row EXCEPT !.UpdatedAt = ZeroTime,
                   !.CreatedAt = IF c.CreatedAt = ZeroTime THEN ZeroTime ELSE @]

ItemIsUnstamped(c, id) ==
  \E k \in DOMAIN c.Items : c.Items[k].ID = id /\ c.Items[k].AddedAt = ZeroTime

ItemUpToStamps(row, c) ==
  IF row = NoRow THEN row
  ELSE [row EXCEPT !.AddedAt = IF ItemIsUnstamped(c, row.ID) THEN ZeroTime ELSE @]

\* C5 amended: a second Save of the same unchanged cart leaves the same rows
\* (none added, none deleted) with every column unchanged, except the time
\* columns Save stamps itself: the header's updated_at, and created_at /
\* added_at where the cart carries the zero time.
C5_IdempotentUpToStamps ==
  [][(last'.op = "Save" /\ last'.again)
       => /\ \A id \in CartIds :
               HeaderUpToStamps(cartRows'[id], last'.cart)
                 = HeaderUpToStamps(cartRows[id], last'.cart)
          /\ \A i \in ItemIds :
               ItemUpToStamps(itemRows'[i], last'.cart)
                 = ItemUpToStamps(itemRows[i], last'.cart)]_vars

\* a repeated Save of a cart that has items
C5_Witness ==
  /\ last.op = "Save"
  /\ last.again
  /\ Len(last.cart.Items) = MaxItems

\* C6: a successful Save of a cart with no items leaves no item row of the
\* cart, keeps its header row, and FindByID returns the cart with an empty
\* item list.
C6_EmptyCartKeepsHeader ==
  (SavedOK /\ Len(last.cart.Items) = 0) =>
    /\ cartRows[last.id] # NoRow
    /\ PluckIDs(itemRows, last.id) = {}
    /\ FindByIDResults(cartRows, itemRows, last.id) # {}
    /\ \A found \in FindByIDResults(cartRows, itemRows, last.id) :
         found.ID = last.id /\ found.Items = <<>>

\* an empty cart saved over stored item rows
C6_Witness ==
  /\ SavedOK
  /\ Len(last.cart.Items) = 0
  /\ last.existing # {}

\* field by field, without the add time
RowHoldsItem(row, cartID, item) ==
  /\ row # NoRow
  /\ row.ID = item.ID
  /\ row.CartID = cartID
  /\ row.ProductID = item.ProductID
  /\ row.VariantID = item.VariantID
  /\ row.SKU = item.SKU
  /\ row.Name = item.Name
  /\ row.PriceAmount = item.Price.Amount
  /\ row.PriceCurrency = item.Price.Currency
  /\ row.Quantity = item.Quantity
  /\ row.Attributes.json = item.Attributes.kv

\* C7 as stated: after a successful Save every item row of the cart equals
\* the cart item in every field, addedAt included.
C7_FullOverwriteExact ==
  SavedOK =>
    \A k \in DOMAIN last.cart.Items :
      LET item == last.cart.Items[k]
      IN /\ RowHoldsItem(itemRows[item.ID], last.id, item)
         /\ itemRows[item.ID].AddedAt = item.AddedAt

\* C7 amended: after a successful Save every item row of the cart equals the
\* cart item in every field, whatever the row held before, except that an
\* item whose addedAt is the zero time is stored with the time of the Save.
C7_FullOverwrite ==
  SavedOK =>
    \A k \in DOMAIN last.cart.Items :
      LET item == last.cart.Items[k]
          row  == itemRows[item.ID]
      IN /\ RowHoldsItem(row, last.id, item)
         /\ IF item.AddedAt # ZeroTime
              THEN row.AddedAt = item.AddedAt
              ELSE row.AddedAt \in ClockStart..now

\* a Save that overwrote a stored row of the cart
C7_Witness ==
  /\ SavedOK
  /\ last.existing \cap SeqIds(last.cart.Items) # {}
  /\ \E k \in DOMAIN last.cart.Items : last.cart.Items[k].AddedAt # ZeroTime

\* C8: the finds return the items in ascending add time, and two finds of
\* the same cart with no store call between them return the same sequence.
C8_DeterministicOrder ==
  [][(IsFind(last) /\ IsFind(last') /\ last.err = ErrNone /\ last'.err = ErrNone
        /\ last.cart.ID = last'.cart.ID)
       => /\ last'.cart.Items = last.cart.Items
          /\ \A i, j \in DOMAIN last'.cart.Items :
               i < j => last'.cart.Items[i].AddedAt <= last'.cart.Items[j].AddedAt]_vars

\* C9: Save(cart X) changes no header row and no item row of another cart.
C9_OtherCartsUntouched ==
  [][last'.op = "Save"
       => \A y \in CartIds \ {last'.id} :
            /\ cartRows'[y] = cartRows[y]
            /\ \A i \in ItemIds :
                 (itemRows[i] # NoRow /\ itemRows[i].CartID = y)
                   => itemRows'[i] = itemRows[i]]_vars

----------------------------------------------------------------------------
(* Properties of concurrent saves *)

Committing(p) == tx[p].pc = "commit" /\ tx'[p].pc = "idle" /\ tx'[p].res = ErrNone

\* C3: two concurrent Saves of the same cart do not interleave their item
\* writes (at most one transaction is past the header upsert at a time), and
\* when a Save commits the stored item set of the cart is exactly its own
\* desired set, so after both committed it is the set of the last to commit.
C3_SavesSerialized ==
  [][/\ \A p, q \in Procs : (p # q /\ HoldsHeader(p)) => ~HoldsHeader(q)
     /\ \A p \in Procs :
          Committing(p) => PluckIDs(itemRows', tx[p].c.ID) = SeqIds(tx[p].c.Items)]_vars

\* both Saves committed, with different desired sets, the second one begun
\* while the first was in the middle of its transaction
C3_Witness ==
  /\ \A p \in Procs : tx[p].pc = "idle" /\ tx[p].res = ErrNone
  /\ \E p \in Procs : tx[p].raced /\ PluckIDs(itemRows, "X") = SeqIds(tx[p].c.Items)
  /\ SeqIds(tx["p1"].c.Items) # SeqIds(tx["p2"].c.Items)
  /\ SeqIds(tx["p1"].c.Items) # {} /\ SeqIds(tx["p2"].c.Items) # {}

----------------------------------------------------------------------------
(* Properties of checkout *)

Completing(p) == co[p].pc = "order" /\ co'[p].pc = "idle"

\* CreateOrder(p) has an outcome that stores the order, on the orders stored
\* now and the cart and body the checkout holds
CanComplete(p) ==
  \E number \in GenerateOrderNumber(orderRows), promo \in PromoOutcomes :
    CreateFromCart(orderRows, p, co[p].n,
                   ToCreateRequest(co[p].req, User, co[p].cart),
                   number, promo, FALSE).err = ErrNone

\* C4: concurrent checkouts of one non-empty cart do not exclude each other.
\* A checkout reads the cart as stored at the moment of its read; whatever
\* the other checkout has done, a checkout holding a non-empty cart can
\* complete with success; the one that succeeds stores a new order of its
\* own carrying the items it read and leaves every stored order as it was;
\* the one that fails changes no order.
C4_ChecksOutIndependently ==
  /\ [](\A p \in Procs :
          (co[p].pc = "order" /\ co[p].cart.Items # <<>>) => CanComplete(p))
  /\ [][\A p \in Procs :
          /\ (co[p].pc = "cart" /\ co'[p].pc = "order")
               => \E c \in CartsOfUser(cartRows', itemRows', User) :
                    c.ID = co'[p].cart.ID /\ c.Items = co'[p].cart.Items
          /\ (Completing(p) /\ co'[p].res = RespCreated)
               => /\ orderRows \subseteq orderRows'
                  /\ \E o \in orderRows' \ orderRows :
                       /\ orderRows' = orderRows \cup {o}
                       /\ o.ID = co'[p].order
                       /\ o.UserID = User
                       /\ OrderToDomain(o).Items =
                            [k \in DOMAIN co[p].cart.Items |->
                               OrderItem(co[p].cart.Items[k])]
          /\ (Completing(p) /\ co'[p].res # RespCreated)
               => orderRows' = orderRows]_vars

\* both checkouts succeeded on the same items, one begun while the other
\* was under way, and each has its order stored
C4_Witness ==
  /\ \A p \in Procs : co[p].pc = "idle" /\ co[p].res = RespCreated
  /\ \E p \in Procs : co[p].overlapped
  /\ \E o1, o2 \in orderRows :
       /\ o1.ID = co["p1"].order /\ o2.ID = co["p2"].order
       /\ o1.ID # o2.ID
       /\ o1.Items = o2.Items /\ o1.Items # <<>>

\* C10: a checkout whose cart has no items answers "Cart is empty" and the
\* stored orders are the same after it as before.
C10_EmptyCartPersistsNothing ==
  [][\A p \in Procs :
       (Completing(p) /\ co[p].cart.Items = <<>>)
         => /\ co'[p].res = RespCartEmpty
            /\ orderRows' = orderRows]_vars

\* a checkout of the emptied cart was refused while an earlier order of the
\* user is stored
C10_Witness ==
  \E p \in Procs :
    /\ co[p].pc = "idle" /\ co[p].res = RespCartEmpty
    /\ co[p].cart # NoCart /\ co[p].cart.Items = <<>>
    /\ PluckIDs(itemRows, co[p].cart.ID) = {}
    /\ orderRows # {}

\* C12: checkout neither changes nor clears the cart.  The step that calls
\* CreateFromCart and answers, with success or with an error, leaves the
\* cart's header and item rows as they were; and a step after which a cart
\* that had item rows has none is no step of a checkout: it changes no
\* request's progress and no order.
C12_CheckoutKeepsCart ==
  [][/\ \A p \in Procs :
          Completing(p) => cartRows' = cartRows /\ itemRows' = itemRows
     /\ \A id \in CartIds :
          (PluckIDs(itemRows, id) # {} /\ PluckIDs(itemRows', id) = {})
            => co' = co /\ orderRows' = orderRows]_vars

\* one checkout has succeeded and one has failed in the order store, and the
\* cart still holds the items the order was made of
C12_Witness ==
  \E p, q \in Procs :
    /\ co[p].pc = "idle" /\ co[p].res = RespCreated
    /\ co[q].pc = "idle" /\ co[q].res = RespInternal /\ co[q].cart # NoCart
    /\ \E cart \in CartsOfUser(cartRows, itemRows, User) :
         cart.Items # <<>> /\ cart.Items = co[p].cart.Items
    /\ \E o \in orderRows : o.ID = co[p].order

\* name, sku, price and quantity of the items of an order or of a cart
OrderSnapshot(order) ==
  [k \in DOMAIN order.Items |->
     <<order.Items[k].Name, order.Items[k].SKU, order.Items[k].UnitPrice,
       order.Items[k].Quantity>>]

CartSnapshot(cart) ==
  [k \in DOMAIN cart.Items |->
     <<cart.Items[k].Name, cart.Items[k].SKU, cart.Items[k].Price, cart.Items[k].Quantity>>]

\* C13: snapshot isolation.  The order a successful checkout stored carries
\* name, sku, price and quantity of the items of the cart the checkout read,
\* and no later step (adding, updating, removing, clearing cart items, a
\* change of a product's price) alters the item snapshot of a stored order.
C13_SnapshotIsolation ==
  /\ [](\A p \in Procs :
          (co[p].pc = "idle" /\ co[p].res = RespCreated)
            => \E o \in orderRows :
                 /\ o.ID = co[p].order
                 /\ OrderSnapshot(OrderToDomain(o)) = CartSnapshot(co[p].cart))
  /\ [][\A o \in orderRows :
          \E o2 \in orderRows' :
            /\ o2.ID = o.ID
            /\ OrderSnapshot(OrderToDomain(o2)) = OrderSnapshot(OrderToDomain(o))]_vars

\* an order is stored whose snapshot differs from what the cart and the
\* catalog hold now: the cart has other items or quantities, and the
\* product is sold at another price than the order's
C13_Witness ==
  \E o \in orderRows :
    /\ co[Shopper].pc = "idle" /\ co[Shopper].res = RespCreated
    /\ o.ID = co[Shopper].order
    /\ \E cart \in CartsOfUser(cartRows, itemRows, User) :
         /\ cart.Items # <<>>
         /\ CartSnapshot(cart) # OrderSnapshot(OrderToDomain(o))
    /\ \E r \in productRows :
         /\ r.SKU = OrderToDomain(o).Items[1].SKU
         /\ r.BasePrice # OrderToDomain(o).Items[1].UnitPrice.Amount

\* C16: every successful checkout stores an order under an id and an order
\* number of its own: two stored orders differ in id and in number, no
\* order's number is its id, and the order of a successful checkout is
\* stored under the id the response names.
C16_UniqueIdAndNumber ==
  /\ \A o1, o2 \in orderRows :
       o1 # o2 => o1.ID # o2.ID /\ o1.OrderNumber # o2.OrderNumber
  /\ \A o1, o2 \in orderRows : o1.OrderNumber # o2.ID
  /\ \A p \in Procs :
       (co[p].pc = "idle" /\ co[p].res = RespCreated)
         => Cardinality({o \in orderRows : o.ID = co[p].order}) = 1

\* one goroutine has served two successful checkouts and both orders are
\* stored
C16_Witness ==
  \E p \in Procs :
    /\ co[p].pc = "idle" /\ co[p].res = RespCreated /\ co[p].n = 2
    /\ Cardinality(orderRows) = 2

\* a request address with a mandatory field left empty
Incomplete(a) ==
  \E f \in AddressFields \ {"Company", "Address2", "PhoneNumber"} : a[f] = ""

Arriving(p) == co[p].pc = "idle" /\ co'[p] # co[p]

----------------------------------------------------------------------------
(* Properties of the order store *)

\* the columns of an order row other than status and cancellation
Frozen(o) ==
  <<o.ID, o.OrderNumber, o.UserID, o.Items, o.ShippingAddress, o.BillingAddress,
    o.Subtotal, o.DiscountTotal, o.TaxTotal, o.ShippingTotal, o.Total, o.Currency>>

\* C14: an order is immutable once stored, but for status and cancellation:
\* no store operation changes id, order number, owner, item snapshot,
\* addresses or totals of a stored order.
C14_OrderImmutable ==
  [][\A o \in orderRows :
       \A o2 \in orderRows' : o2.ID = o.ID => Frozen(o2) = Frozen(o)]_vars

OrderSavedOK == last.op = "OrderSave" /\ last.err = ErrNone

Transitions ==
  {<<"pending", "processing">>, <<"processing", "shipped">>, <<"processing", "delivered">>,
   <<"pending", "canceled">>, <<"processing", "canceled">>}

----------------------------------------------------------------------------
(* Properties of the optional resolvers *)

\* the resolver is unset or its call fails
Degraded(resolver) == ~resolver.set \/ resolver.fails

Asked(op) == last' # last /\ last'.op = op

----------------------------------------------------------------------------
(* Properties of the tax calculation *)

Calculated == last.op = "Calculate"

\* floor(n * rate) for the decimal rate
ExactFloor(n, r) == (n * r.num) \div r.den

\* C19: Calculate returns shippingTax = floor(shippingCost * rate) and
\* totalTax = floor(taxable base * rate) + floor(shippingCost * rate).
C19_TruncatedTax ==
  Calculated =>
    /\ last.res.ShippingTax.Amount = ExactFloor(last.req.ShippingCost.Amount, last.rate)
    /\ last.res.TotalTax.Amount =
         ExactFloor(TaxableTotal(last.req.LineItems, 1), last.rate)
         + ExactFloor(last.req.ShippingCost.Amount, last.rate)

InsertAt(s, k, e) == SubSeq(s, 1, k - 1) \o <<e>> \o SubSeq(s, k, Len(s))

RemoveAt(s, k) == SubSeq(s, 1, k - 1) \o SubSeq(s, k + 1, Len(s))

TaxAmounts(res) == <<res.TotalTax.Amount, res.ShippingTax.Amount>>

ShippingOnly == Calculated /\ Len(last.req.LineItems) = 0

OtherAddresses == {[last.req EXCEPT !.State = s] : s \in States}

\* what a result says but for the jurisdiction label of its rates
TaxFigures(res) ==
  [TotalTax    |-> res.TotalTax,
   ShippingTax |-> res.ShippingTax,
   Lines       |-> [i \in DOMAIN res.LineItemTaxes |->
                      [LineItemID |-> res.LineItemTaxes[i].LineItemID,
                       TaxAmount  |-> res.LineItemTaxes[i].TaxAmount,
                       Rates      |-> [k \in DOMAIN res.LineItemTaxes[i].TaxRates |->
                                         res.LineItemTaxes[i].TaxRates[k].Rate]]],
   Rates       |-> [k \in DOMAIN res.TaxRates |-> res.TaxRates[k].Rate],
   err         |-> res.err]

\* C22 as stated: two calls with the same line items, shipping cost and rate
\* return identical results whatever the address, every per-line result
\* included.
C22_IdenticalResults ==
  Calculated => \A req \in OtherAddresses : Calculate(req, last.rate) = last.res

\* C22: two calls with the same line items, shipping cost and rate return
\* the same totalTax, shippingTax and per-line ids, amounts and rates
\* whatever the address; the jurisdiction named in the applied rates is the
\* state of the call's address; the call changes no state.
C22_PureButJurisdiction ==
  /\ [](Calculated =>
          /\ \A req \in OtherAddresses :
                TaxFigures(Calculate(req, last.rate)) = TaxFigures(last.res)
          /\ \A k \in DOMAIN last.res.TaxRates :
                last.res.TaxRates[k].Jurisdiction = last.req.State
          /\ \A i \in DOMAIN last.res.LineItemTaxes :
                \A k \in DOMAIN last.res.LineItemTaxes[i].TaxRates :
                  last.res.LineItemTaxes[i].TaxRates[k].Jurisdiction = last.req.State)
  /\ [][(last.op = "request" /\ last'.op = "Calculate")
          => /\ UNCHANGED <<cartRows, itemRows, orderRows, productRows, now, tx, co>>
             /\ last'.req = last.req /\ last'.rate = last.rate]_vars

\* a call for an address in CA with a taxed line and taxed shipping
C22_Witness ==
  /\ Calculated
  /\ last.req.State = "CA"
  /\ last.res.ShippingTax.Amount > 0
  /\ \E i \in DOMAIN last.req.LineItems : last.res.LineItemTaxes[i].TaxAmount.Amount > 0


\* the currencies a request carries: those of its line items and of its
\* shipping cost
Currencies(req) ==
  {req.LineItems[i].Amount.Currency : i \in DOMAIN req.LineItems}
    \cup {req.ShippingCost.Currency}

\* C23: a tax calculation over line items and shipping cost that do not all
\* carry one currency fails with CurrencyMismatch, and returns no amount.
C23_CurrencyMismatch ==
  (Calculated /\ Cardinality(Currencies(last.req)) > 1) =>
    last.res.err = "CurrencyMismatch"


----------------------------------------------------------------------------
(* Properties of the cart endpoints *)

\* the stored item rows of the user's cart
CartItemRows == {id \in ItemIds : itemRows[id] # NoRow}

\* C24: after any sequence of add-item, update-quantity, remove-item and
\* clear requests every stored item has quantity > 0 and the items of the
\* cart have pairwise distinct ids; an update to quantity zero of an item
\* the cart holds removes the item.
C24_PositiveQuantities ==
  /\ [](/\ \A id \in CartItemRows : itemRows[id].Quantity > 0
        /\ \A c \in CartsOfUser(cartRows, itemRows, User) :
             Cardinality(SeqIds(c.Items)) = Len(c.Items))
  /\ [][(/\ last'.op = "UpdateItemQuantity"
          /\ last' # last
          /\ last'.quantity = 0
          /\ last'.id \in CartItemRows) => last'.id \notin CartItemRows']_vars


\* the cart headers of a user
HeadersOf(carts, userID) == {id \in StoredCarts(carts) : carts[id].UserID = userID}

\* request p is answered with a cart
Answered(p) == co'[p] # co[p] /\ co'[p].res = RespOK

\* C25: whatever the interleaving of a user's requests, at most one cart
\* header exists for the user, exactly one once a request was answered, and
\* every answer carries the cart of the answers before it.
C25_OneCartPerOwner ==
  /\ [](Cardinality(HeadersOf(cartRows, User)) <= 1)
  /\ [][\A p \in Procs :
          Answered(p) =>
            /\ Cardinality(HeadersOf(cartRows', User)) = 1
            /\ \A q \in Procs : co[q].res = RespOK => co[q].cart.ID = co'[p].cart.ID]_vars


----------------------------------------------------------------------------
(* Properties of pagination *)

\* C26: for every query string the parameters a list endpoint uses have
\* page >= 1 and 1 <= page_size <= 100, the offset is not negative and no
\* page count is computed with page size zero.
C26_PaginationInRange ==
  last.op = "ListCategories" =>
    /\ last.out.params.Page >= 1
    /\ last.out.params.PageSize >= 1 /\ last.out.params.PageSize <= 100
    /\ last.out.offset >= 0
    /\ last.out.res # Panic


----------------------------------------------------------------------------
(* More properties of the cart store *)

\* the ids of an item list, in its sequence
IdSeq(s) == [k \in DOMAIN s |-> s[k].ID]

\* a FindByID of the cart the Save before it stored
FoundAfterSave ==
  /\ last.op = "Save" /\ last.err = ErrNone
  /\ last'.op = "FindByID" /\ last'.err = ErrNone
  /\ last'.id = last.cart.ID

\* C27: Save(cart) followed by FindByID(cart.ID) returns the items in the
\* sequence they had in cart.Items at the time of the Save.
C27_OrderPreserved ==
  [][FoundAfterSave => IdSeq(last'.cart.Items) = IdSeq(last.cart.Items)]_vars


\* C28: after any sequence of Save and Delete every stored item row has a
\* cart_id for which a header row exists; Delete(id) leaves no item row of
\* cart id behind.
C28_NoOrphanItems ==
  \A id \in ItemIds :
    itemRows[id] # NoRow => cartRows[itemRows[id].CartID] # NoRow


----------------------------------------------------------------------------
(* More properties of the tax calculation *)

RECURSIVE LineTaxSum(_, _)
\* the sum of the per-line tax amounts
LineTaxSum(taxes, k) ==
  IF k > Len(taxes) THEN 0 ELSE taxes[k].TaxAmount.Amount + LineTaxSum(taxes, k + 1)

TaxableLines(req) == {i \in DOMAIN req.LineItems : req.LineItems[i].IsTaxable}

\* C29: the per-line tax amounts plus the shippingTax do not exceed the
\* totalTax, and the totalTax exceeds them by less than the number of
\* taxable lines (by nothing when no line is taxable).
C29_LineTaxesWithinTotal ==
  Calculated =>
    LET parts == LineTaxSum(last.res.LineItemTaxes, 1) + last.res.ShippingTax.Amount
        lines == Cardinality(TaxableLines(last.req))
    IN /\ parts <= last.res.TotalTax.Amount
       /\ last.res.TotalTax.Amount - parts < (IF lines = 0 THEN 1 ELSE lines)


----------------------------------------------------------------------------
(* More properties of the order store *)

\* a FindByID of the order the Save before it stored
OrderFoundAfterSave ==
  /\ last.op = "OrderSave" /\ last.err = ErrNone
  /\ last'.op = "OrderFindByID" /\ last'.err = ErrNone
  /\ last'.id = last.id

\* C30: Save(o) followed by FindByID(o.ID) returns an order equal to o in
\* every field.
C30_OrderRoundTrip ==
  [][OrderFoundAfterSave => last'.order = last.order]_vars

====
